---- MODULE Spec2Model ----
(***************************************************************************)
(* Embedding service: OptimizedEmbeddingService (src/embedings.py) and its *)
(* FastAPI host (src/api.py).                                              *)
(*                                                                         *)
(* Numbers are exact.  A text is a sequence of words; a vector has two     *)
(* integer components.  A unit vector is written as the primitive integer  *)
(* vector on its ray (<<2, 1>> stands for <<2, 1>> / sqrt(5)); <<0, 0>> is *)
(* the zero vector, the one value normalize() cannot scale to length 1.    *)
(* The length of <<x, y>> is counted in lengths of the primitive vector on *)
(* its ray: gcd(|x|, |y|).                                                 *)
(***************************************************************************)
EXTENDS Integers, Sequences, FiniteSets, TLC

\* ------------------------------------------------------------- bounds
MaxTexts == 2      \* longest list of texts in one query
MaxBatch == 2      \* largest batch_size a service is constructed with
MaxWorkers == 2    \* largest max_workers a service is constructed with
MaxLength == 3     \* max_length (tokens per text) of the service
MaxCallTexts == 3  \* longest list of texts in one direct call
MaxWidth == 2      \* most token positions of a text handed to pooling

\* ------------------------------------------------------------- values
EmptyText == << >>
ShortText == <<"a">>
LongText == <<"b", "a", "b">>
CallTexts == {EmptyText, LongText}
ReqTexts == {ShortText, LongText}

Min(a, b) == IF a < b THEN a ELSE b
Max(a, b) == IF a > b THEN a ELSE b
Abs(a) == IF a < 0 THEN -a ELSE a

RECURSIVE Gcd(_, _)
Gcd(a, b) == IF b = 0 THEN a ELSE Gcd(b, a % b)

RECURSIVE SumVec(_)
SumVec(vs) ==
    IF Len(vs) = 0 THEN <<0, 0>>
    ELSE LET r == SumVec(Tail(vs))
         IN <<Head(vs)[1] + r[1], Head(vs)[2] + r[2]>>

RECURSIVE SumInt(_)
SumInt(s) == IF Len(s) = 0 THEN 0 ELSE Head(s) + SumInt(Tail(s))

RECURSIVE Concat(_)
Concat(ss) == IF Len(ss) = 0 THEN << >> ELSE Head(ss) \o Concat(Tail(ss))

SeqsUpTo(S, n) == UNION {[1..k -> S] : k \in 0..n}

\* A str query or a list query (typing.Union[str, List[str]]).
StrQuery(t) == [kind |-> "str", texts |-> <<t>>]
ListQuery(ts) == [kind |-> "list", texts |-> ts]
Queries(T, n) == {StrQuery(t) : t \in T} \cup {ListQuery(ts) : ts \in SeqsUpTo(T, n)}

\* What a call gives back: a value or a raised exception.
Return(shape, val) == [ok |-> TRUE, shape |-> shape, val |-> val]
Raise(err) == [ok |-> FALSE, shape |-> err, val |-> << >>]

\* ---------------------------------------------------- tokenizer, encoder
\* tokenizer(texts, padding=True, truncation=True, max_length=...): a
\* leading special token, truncation to max_length, padding to the longest
\* text of the batch; attention_mask is 1 on real tokens and 0 on padding.
TokenizeOne(text, max_length) ==
    SubSeq(<<"cls">> \o text, 1, Min(Len(text) + 1, max_length))

Tokenizer(texts, max_length) ==
    LET toks == [k \in 1..Len(texts) |-> TokenizeOne(texts[k], max_length)]
        width == IF Len(texts) = 0 THEN 0
                 ELSE CHOOSE w \in {Len(toks[k]) : k \in 1..Len(texts)} :
                          \A k \in 1..Len(texts) : Len(toks[k]) <= w
    IN [input_ids |->
            [k \in 1..Len(texts) |->
                [p \in 1..width |->
                    IF p <= Len(toks[k]) THEN toks[k][p] ELSE "pad"]],
        attention_mask |->
            [k \in 1..Len(texts) |->
                [p \in 1..width |-> IF p <= Len(toks[k]) THEN 1 ELSE 0]]]

\* self.model(**encoded): the last hidden state of every position.  The
\* encoder is given the attention mask; a padding position still carries a
\* hidden state, which is not zero.
HiddenOf(tok) ==
    CASE tok = "cls" -> <<1, 1>>
      [] tok = "a" -> <<1, 0>>
      [] tok = "b" -> <<0, 2>>
      [] OTHER -> <<-1, 3>>

Model(encoded) ==
    [k \in DOMAIN encoded.input_ids |->
        [p \in DOMAIN encoded.input_ids[k] |-> HiddenOf(encoded.input_ids[k][p])]]

\* ------------------------------------------------- pooling, normalization
\* _mean_pooling: the masked sum over the positions, divided by the number
\* of real tokens clamped from below at 1e-9.  A mean is kept as the exact
\* fraction num / (den.n * den.unit).
MeanPoolNoMask(token_embeddings, attention_mask) ==
    [k \in DOMAIN token_embeddings |->
        [num |-> SumVec(token_embeddings[k]),
         den |-> [n |-> Max(Len(token_embeddings[k]), 1), unit |-> "1"]]]

_mean_pooling(token_embeddings, attention_mask) ==
    [k \in DOMAIN token_embeddings |->
        LET masked == [p \in DOMAIN token_embeddings[k] |->
                          <<token_embeddings[k][p][1] * attention_mask[k][p],
                            token_embeddings[k][p][2] * attention_mask[k][p]>>]
            sum_mask == SumInt(attention_mask[k])
        IN [num |-> SumVec(masked),
            den |-> IF sum_mask >= 1 THEN [n |-> sum_mask, unit |-> "1"]
                    ELSE [n |-> 1, unit |-> "1e-9"]]]

\* The pooled mean handed on as it is, without scaling it to length 1.
NormalizeNone(mean) == mean.num

\* torch.nn.functional.normalize(p=2, dim=1): v / max(|v|, 1e-12).  The
\* divisor of the mean is positive, so the ray is that of the numerator.
Normalize(mean) ==
    LET g == Gcd(Abs(mean.num[1]), Abs(mean.num[2]))
    IN IF g = 0 THEN <<0, 0>>
       ELSE <<mean.num[1] \div g, mean.num[2] \div g>>

\* _embed_batch: one inference call on one batch of texts.
_embed_batch(texts, max_length) ==
    LET encoded == Tokenizer(texts, max_length)
        last_hidden_state == Model(encoded)
        embeddings == _mean_pooling(last_hidden_state, encoded.attention_mask)
    IN [k \in 1..Len(texts) |-> Normalize(embeddings[k])]

\* ------------------------------------------------------- batch scheduler
\* Only the full batches: range(0, len(texts) - batch_size + 1, batch_size).
BatchesDropTail(texts, batch_size) ==
    [j \in 1..(Len(texts) \div batch_size) |->
        SubSeq(texts, (j - 1) * batch_size + 1, j * batch_size)]

\* [texts[i:i + batch_size] for i in range(0, len(texts), batch_size)]
Batches(texts, batch_size) ==
    LET starts == {i \in 0..(Len(texts) - 1) : i % batch_size = 0}
    IN [j \in 1..Cardinality(starts) |->
           SubSeq(texts, (j - 1) * batch_size + 1, Min(j * batch_size, Len(texts)))]

\* np.vstack: the rows of the arrays, one array under the other; it raises
\* ValueError when it is given no array.
VStack(batch_results) ==
    IF Len(batch_results) = 0 THEN Raise("ValueError")
    ELSE Return("array", Concat(batch_results))

\* result = all_embeddings.tolist(); result[0] for a str, else result.
UnwrapNever(single_input, all_embeddings) == Return("list", all_embeddings)

Unwrap(single_input, all_embeddings) ==
    IF single_input THEN Return("vector", all_embeddings[1])
    ELSE Return("list", all_embeddings)

\* asyncio.gather(*tasks): the results in the order of the tasks, whatever
\* the order in which they finished.
GatherAsCompleted(results, finished) ==
    [n \in 1..Len(finished) |-> results[finished[n]]]

Gather(results, finished) == [j \in 1..Len(results) |-> results[j]]

\* embed_sync: the batches one after the other on the calling thread;
\* `fails` are the batches whose inference raises.
embed_sync(query, batch_size, max_length, fails) ==
    LET batches == Batches(query.texts, batch_size)
    IN IF \E j \in DOMAIN batches : j \in fails THEN Raise("InferenceError")
       ELSE LET all_embeddings ==
                    VStack([j \in DOMAIN batches |-> _embed_batch(batches[j], max_length)])
            IN IF all_embeddings.ok
               THEN Unwrap(query.kind = "str", all_embeddings.val)
               ELSE all_embeddings

\* The results of the tasks that succeeded so far are stacked, a failed
\* task is skipped.
ResumePartial(single_input, results, failed, finished) ==
    LET kept == {j \in DOMAIN results : j \notin failed /\ results[j] # << >>}
        all_embeddings ==
            VStack(Gather([n \in 1..Cardinality(kept) |->
                              results[CHOOSE j \in kept :
                                  Cardinality({i \in kept : i < j}) = n - 1]],
                          finished))
    IN IF all_embeddings.ok THEN Unwrap(single_input, all_embeddings.val)
       ELSE all_embeddings

\* embed_async from `await asyncio.gather(*tasks)` on: gather raises the
\* exception of a failed task, else the results are stacked.
embed_async_resume(single_input, results, failed, finished) ==
    IF failed # {} THEN Raise("InferenceError")
    ELSE LET all_embeddings == VStack(Gather(results, finished))
         IN IF all_embeddings.ok THEN Unwrap(single_input, all_embeddings.val)
            ELSE all_embeddings

Perms(n) == {f \in [1..n -> 1..n] : \A i, j \in 1..n : f[i] = f[j] => i = j}

\* embed_async as one call: every task runs, the tasks finish in the order
\* `finished`, those in `fails` raise.
embed_async(query, batch_size, max_length, fails, finished) ==
    LET batches == Batches(query.texts, batch_size)
        results == [j \in DOMAIN batches |->
                       IF j \in fails THEN << >>
                       ELSE _embed_batch(batches[j], max_length)]
    IN embed_async_resume(query.kind = "str", results,
                          fails \cap DOMAIN batches, finished)

\* ---------------------------------------------------------------- state
VARIABLES
    lifecycle,          \* lifespan: "init", "serving", "failed", "stopped"
    embedding_service,  \* the global of api.py: "None", "bound", "unbound"
    svc,                \* the fields of the service object
    executor,           \* self.executor: "none", "running", "shutdown"
    poolEvents,         \* the creations and shutdowns of the pool, in order
    queue,              \* the pool's work queue: tasks <<request, chunk>>
    req,                \* the request handlers; inference: the thread on which
                        \* the handler itself ran _embed_batch, if it did
    task,               \* per request, its chunk tasks; thread: the thread
                        \* that ran the task's _embed_batch
    finished,           \* per request, its chunks in the order they finished
    call,               \* the last direct call of embed_sync / embed_async
    selected,           \* the last device selection and what was available
    pooled              \* the last pooling and normalization, with its input

vars == <<lifecycle, embedding_service, svc, executor, poolEvents, queue,
          req, task, finished, call, selected, pooled>>

svcVars == <<lifecycle, embedding_service, svc, executor, poolEvents, queue,
             req, task, finished>>

\* Two clients at a time: r1 uses every endpoint with every query, r2 posts
\* single strings to /embed.
Reqs == {"r1", "r2"}
AnyEndpoint == {"r1"}
QueriesOf(r) ==
    IF r \in AnyEndpoint THEN Queries(ReqTexts, MaxTexts)
    ELSE {StrQuery(t) : t \in ReqTexts}

NoBody == [ok |-> FALSE, shape |-> "none", val |-> << >>]
NoResponse == [status |-> 0, detail |-> "", embeddings |-> NoBody,
               dimension |-> 0, count |-> 0]
Idle == [pc |-> "idle", endpoint |-> "", query |-> ListQuery(<< >>),
         inference |-> "", response |-> NoResponse]
NoCall == [fn |-> "", query |-> ListQuery(<< >>), batch_size |-> 0,
           fails |-> {}, finished |-> << >>, batches |-> << >>,
           result |-> NoBody]
NoSelection == [cuda |-> FALSE, mps |-> FALSE, device |-> ""]
NoPooling == [token_embeddings |-> << >>, attention_mask |-> << >>,
              embeddings |-> << >>]

\* raise HTTPException(status_code=..., detail=...)
HTTPException(status, detail) ==
    [status |-> status, detail |-> detail, embeddings |-> NoBody,
     dimension |-> 0, count |-> 0]

\* An exception no handler catches: the host answers 500.
Unhandled == HTTPException(500, "Internal Server Error")

\* EmbeddingResponse of /embed: count and dimension by the type of
\* embeddings[0].
EmbeddingResponse(embeddings) ==
    [status |-> 200, detail |-> "", embeddings |-> embeddings,
     dimension |-> IF embeddings.shape = "list" THEN Len(embeddings.val[1])
                   ELSE Len(embeddings.val),
     count |-> IF embeddings.shape = "list" THEN Len(embeddings.val) ELSE 1]

InFlight(tk, r) == {j \in DOMAIN tk[r] : tk[r][j].st \in {"queued", "running"}}
Failed(tk, r) == {j \in DOMAIN tk[r] : tk[r][j].st = "failed"}
Running(tk) ==
    UNION {{<<r, j>> : j \in {i \in DOMAIN tk[r] : tk[r][i].st = "running"}} : r \in Reqs}

\* The references that keep the service object alive: the global, the work
\* items of the pool (each holds the bound method self._embed_batch) and
\* the embed_async coroutines (self).
Refs(es, tk, rq) ==
    (IF es = "bound" THEN 1 ELSE 0)
    + Cardinality(UNION {{<<r, j>> : j \in InFlight(tk, r)} : r \in Reqs})
    + Cardinality({r \in Reqs : rq[r].pc = "awaiting"})

\* _get_optimal_device with the two accelerators tried in the other order.
DeviceMpsFirst(cuda, mps) ==
    IF mps THEN "mps" ELSE IF cuda THEN "cuda" ELSE "cpu"

\* _get_optimal_device: cuda if torch.cuda.is_available(), else mps if
\* torch.backends.mps.is_available(), else cpu.
_get_optimal_device(cuda, mps) ==
    IF cuda THEN "cuda" ELSE IF mps THEN "mps" ELSE "cpu"

\* The machines the service is started on: what is_available() answers.
Hardware == [cuda : BOOLEAN, mps : BOOLEAN]
Hosts == {[cuda |-> FALSE, mps |-> TRUE]}

\* __init__: the fields of the service object.  The model is loaded, moved
\* to the device and put in eval mode; the pool has max_workers threads.
NoService == [batch_size |-> 0, max_workers |-> 0, max_length |-> 0,
              device |-> "", model |-> ""]
Service(batch_size, max_workers, hw) ==
    [batch_size |-> batch_size, max_workers |-> max_workers,
     max_length |-> MaxLength,
     device |-> _get_optimal_device(hw.cuda, hw.mps), model |-> "eval"]

\* __del__ runs when the last reference goes: executor.shutdown(wait=True).
\* No work item is left by then, so the wait is over at once.
Collect(es, tk, rq) ==
    IF executor = "running" /\ Refs(es, tk, rq) = 0
    THEN /\ executor' = "shutdown"
         /\ poolEvents' = Append(poolEvents, "shutdown")
    ELSE UNCHANGED <<executor, poolEvents>>

ServiceInit ==
    /\ lifecycle = "init"
    /\ embedding_service = "None"
    /\ svc = NoService
    /\ executor = "none"
    /\ poolEvents = << >>
    /\ queue = << >>
    /\ req = [r \in Reqs |-> Idle]
    /\ task = [r \in Reqs |-> << >>]
    /\ finished = [r \in Reqs |-> << >>]

Init ==
    /\ ServiceInit
    /\ call = NoCall
    /\ selected = NoSelection
    /\ pooled = NoPooling

\* ------------------------------------------------------------- lifespan
\* Startup: the service is constructed (the pool with it) and bound to the
\* global, then get_embedding_dimension() probes the model, all in one step
\* of the event loop.
Initialize(batch_size, max_workers) ==
    /\ lifecycle = "init"
    /\ lifecycle' = "serving"
    /\ embedding_service' = "bound"
    /\ \E hw \in Hosts : svc' = Service(batch_size, max_workers, hw)
    /\ executor' = "running"
    /\ poolEvents' = Append(poolEvents, "create")
    /\ UNCHANGED <<queue, req, task, finished, call, selected, pooled>>

\* Startup fails: the model does not load (the global stays None), or the
\* probe raises after the service was bound.  The host then exits.
InitializeFail(probe) ==
    /\ lifecycle = "init"
    /\ lifecycle' = "failed"
    /\ IF probe
       THEN /\ embedding_service' = "bound"
            /\ \E hw \in Hosts : svc' = Service(1, 1, hw)
            /\ executor' = "running"
            /\ poolEvents' = Append(poolEvents, "create")
       ELSE UNCHANGED <<embedding_service, svc, executor, poolEvents>>
    /\ UNCHANGED <<queue, req, task, finished, call, selected, pooled>>

\* Shutdown, once the host has no handler left running:
\* del embedding_service unbinds the global.
Teardown ==
    /\ lifecycle = "serving"
    /\ \A r \in Reqs : req[r].pc # "awaiting"
    /\ lifecycle' = "stopped"
    /\ embedding_service' = "unbound"
    /\ Collect(embedding_service', task, req)
    /\ UNCHANGED <<svc, queue, req, task, finished, call, selected, pooled>>

\* ------------------------------------------------------------- handlers
Done(r, endpoint, query, response) ==
    /\ req' = [req EXCEPT ![r] = [pc |-> "done", endpoint |-> endpoint,
                                  query |-> query, inference |-> "",
                                  response |-> response]]
    /\ UNCHANGED <<lifecycle, embedding_service, svc, executor, poolEvents,
                   queue, task, finished, call, selected, pooled>>

\* embed_async up to `await asyncio.gather(*tasks)`: one task per batch is
\* handed to the pool.  Without a batch gather() is done at once and the
\* coroutine runs on to np.vstack.
Submit(r, endpoint, query) ==
    LET batches == Batches(query.texts, svc.batch_size)
    IN IF Len(batches) = 0
       THEN LET res == embed_async_resume(query.kind = "str", << >>, {}, << >>)
            IN Done(r, endpoint, query,
                    IF res.ok THEN EmbeddingResponse(res)
                    ELSE HTTPException(500, "Error generating embeddings"))
       ELSE /\ req' = [req EXCEPT ![r] = [pc |-> "awaiting", endpoint |-> endpoint,
                                          query |-> query, inference |-> "",
                                          response |-> NoResponse]]
            /\ task' = [task EXCEPT ![r] =
                           [j \in DOMAIN batches |->
                               [st |-> "queued", batch |-> batches[j], runs |-> 0,
                                thread |-> "", result |-> << >>]]]
            /\ finished' = [finished EXCEPT ![r] = << >>]
            /\ queue' = queue \o [j \in DOMAIN batches |-> <<r, j>>]
            /\ UNCHANGED <<lifecycle, embedding_service, svc, executor,
                           poolEvents, call, selected, pooled>>

\* POST /embed without the test for None: None.embed_async raises
\* AttributeError inside the try block.
EmbedNoCheck(r, query) ==
    /\ lifecycle # "failed"
    /\ req[r].pc = "idle"
    /\ CASE embedding_service = "unbound" -> Done(r, "/embed", query, Unhandled)
         [] embedding_service = "None" ->
                Done(r, "/embed", query,
                     HTTPException(500, "Error generating embeddings"))
         [] OTHER -> Submit(r, "/embed", query)

\* POST /embed with admission control: a request is turned away while
\* work items wait in the pool's queue.
EmbedBounded(r, query) ==
    /\ lifecycle # "failed"
    /\ req[r].pc = "idle"
    /\ CASE embedding_service = "unbound" -> Done(r, "/embed", query, Unhandled)
         [] embedding_service = "None" ->
                Done(r, "/embed", query, HTTPException(503, "Service not initialized"))
         [] queue # << >> ->
                Done(r, "/embed", query, HTTPException(503, "Server busy"))
         [] OTHER -> Submit(r, "/embed", query)

\* The name embedding_service is looked up first: deleted, it raises
\* NameError, which no handler catches.
\* POST /embed
Embed(r, query) ==
    /\ lifecycle # "failed"
    /\ req[r].pc = "idle"
    /\ CASE embedding_service = "unbound" -> Done(r, "/embed", query, Unhandled)
         [] embedding_service = "None" ->
                Done(r, "/embed", query, HTTPException(503, "Service not initialized"))
         [] OTHER -> Submit(r, "/embed", query)

\* POST /embed/batch
EmbedBatch(r, queries) ==
    LET query == ListQuery(queries)
    IN /\ lifecycle # "failed"
       /\ req[r].pc = "idle"
       /\ CASE embedding_service = "unbound" -> Done(r, "/embed/batch", query, Unhandled)
            [] embedding_service = "None" ->
                   Done(r, "/embed/batch", query,
                        HTTPException(503, "Service not initialized"))
            [] queries = << >> ->
                   Done(r, "/embed/batch", query,
                        HTTPException(400, "Query list cannot be empty"))
            [] OTHER -> Submit(r, "/embed/batch", query)

\* GET /health: get_embedding_dimension() is embed_sync("test"), run by the
\* handler itself, on the event loop's thread.
Health(r, fails) ==
    LET probe == StrQuery(ShortText)
    IN /\ lifecycle # "failed"
       /\ req[r].pc = "idle"
       /\ CASE embedding_service = "unbound" ->
                   /\ fails = {}
                   /\ Done(r, "/health", probe, Unhandled)
            [] embedding_service = "None" ->
                   /\ fails = {}
                   /\ Done(r, "/health", probe,
                           HTTPException(503, "Service not initialized"))
            [] OTHER ->
                   LET res == embed_sync(probe, svc.batch_size, svc.max_length, fails)
                   IN /\ req' = [req EXCEPT ![r] =
                                    [pc |-> "done", endpoint |-> "/health",
                                     query |-> probe, inference |-> "loop",
                                     response |->
                                         IF res.ok
                                         THEN [status |-> 200, detail |-> "healthy",
                                               embeddings |-> NoBody,
                                               dimension |-> Len(res.val),
                                               count |-> 0]
                                         ELSE Unhandled]]
                      /\ UNCHANGED <<lifecycle, embedding_service, svc, executor,
                                     poolEvents, queue, task, finished, call, selected, pooled>>

\* The handler resumes as soon as one task has finished.
ResumeEarly(r) ==
    /\ req[r].pc = "awaiting"
    /\ \E j \in DOMAIN task[r] : task[r][j].st \in {"done", "failed"}
    /\ LET res == embed_async_resume(req[r].query.kind = "str",
                                     [j \in DOMAIN task[r] |-> task[r][j].result],
                                     Failed(task, r), finished[r])
       IN req' = [req EXCEPT ![r].pc = "done",
                             ![r].response =
                                 IF res.ok THEN EmbeddingResponse(res)
                                 ELSE HTTPException(500, "Error generating embeddings")]
    /\ Collect(embedding_service, task, req')
    /\ UNCHANGED <<lifecycle, embedding_service, svc, queue, task, finished,
                   call, selected, pooled>>

\* The handler resumes when gather is done: every task has finished, or one
\* has failed.
Resume(r) ==
    /\ req[r].pc = "awaiting"
    /\ \/ Failed(task, r) # {}
       \/ \A j \in DOMAIN task[r] : task[r][j].st = "done"
    /\ LET res == embed_async_resume(req[r].query.kind = "str",
                                     [j \in DOMAIN task[r] |-> task[r][j].result],
                                     Failed(task, r), finished[r])
       IN req' = [req EXCEPT ![r].pc = "done",
                             ![r].response =
                                 IF res.ok THEN EmbeddingResponse(res)
                                 ELSE HTTPException(500, "Error generating embeddings")]
    /\ Collect(embedding_service, task, req')
    /\ UNCHANGED <<lifecycle, embedding_service, svc, queue, task, finished,
                   call, selected, pooled>>

\* The response has gone out and the request's tasks are over.
Close(r) ==
    /\ req[r].pc = "done"
    /\ InFlight(task, r) = {}
    /\ req' = [req EXCEPT ![r] = Idle]
    /\ task' = [task EXCEPT ![r] = << >>]
    /\ finished' = [finished EXCEPT ![r] = << >>]
    /\ UNCHANGED <<lifecycle, embedding_service, svc, executor, poolEvents,
                   queue, call, selected, pooled>>

\* ---------------------------------------------------------- worker pool
\* A thread per work item: the oldest item is run whatever the number of
\* items already running.
WorkerStartUnbounded ==
    /\ queue # << >>
    /\ LET r == Head(queue)[1]
           j == Head(queue)[2]
       IN task' = [task EXCEPT ![r][j].st = "running",
                               ![r][j].thread = "worker",
                               ![r][j].runs = task[r][j].runs + 1]
    /\ queue' = Tail(queue)
    /\ UNCHANGED <<lifecycle, embedding_service, svc, executor, poolEvents,
                   req, finished, call, selected, pooled>>

\* A free worker takes the oldest work item and runs _embed_batch on it.
WorkerStart ==
    /\ queue # << >>
    /\ Cardinality(Running(task)) < svc.max_workers
    /\ LET r == Head(queue)[1]
           j == Head(queue)[2]
       IN task' = [task EXCEPT ![r][j].st = "running",
                               ![r][j].thread = "worker",
                               ![r][j].runs = task[r][j].runs + 1]
    /\ queue' = Tail(queue)
    /\ UNCHANGED <<lifecycle, embedding_service, svc, executor, poolEvents,
                   req, finished, call, selected, pooled>>

\* _embed_batch keeps its encoded input in a field of the service: a task
\* may pool the input of another task that is running.
WorkerFinishShared(r, j, raises) ==
    /\ j \in DOMAIN task[r]
    /\ task[r][j].st = "running"
    /\ \E other \in Running(task) :
           task' = [task EXCEPT ![r][j].st = IF raises THEN "failed" ELSE "done",
                                ![r][j].result =
                                    IF raises THEN << >>
                                    ELSE _embed_batch(task[other[1]][other[2]].batch,
                                                      svc.max_length)]
    /\ finished' = [finished EXCEPT ![r] = Append(finished[r], j)]
    /\ Collect(embedding_service, task', req)
    /\ UNCHANGED <<lifecycle, embedding_service, svc, queue, req, call, selected, pooled>>

\* _embed_batch leaves the model in training mode.
WorkerFinishTrain(r, j, raises) ==
    /\ j \in DOMAIN task[r]
    /\ task[r][j].st = "running"
    /\ task' = [task EXCEPT ![r][j].st = IF raises THEN "failed" ELSE "done",
                            ![r][j].result =
                                IF raises THEN << >>
                                ELSE _embed_batch(task[r][j].batch, svc.max_length)]
    /\ finished' = [finished EXCEPT ![r] = Append(finished[r], j)]
    /\ svc' = [svc EXCEPT !.model = "train"]
    /\ Collect(embedding_service, task', req)
    /\ UNCHANGED <<lifecycle, embedding_service, queue, req, call, selected, pooled>>

\* _embed_batch returns or raises; the work item is dropped.
WorkerFinish(r, j, raises) ==
    /\ j \in DOMAIN task[r]
    /\ task[r][j].st = "running"
    /\ task' = [task EXCEPT ![r][j].st = IF raises THEN "failed" ELSE "done",
                            ![r][j].result =
                                IF raises THEN << >>
                                ELSE _embed_batch(task[r][j].batch, svc.max_length)]
    /\ finished' = [finished EXCEPT ![r] = Append(finished[r], j)]
    /\ Collect(embedding_service, task', req)
    /\ UNCHANGED <<lifecycle, embedding_service, svc, queue, req, call, selected, pooled>>

\* Requests are dispatched in every state of the lifespan but after a failed
\* startup, when the host has exited.
Next ==
    \/ \E b \in 1..MaxBatch, w \in 1..MaxWorkers : Initialize(b, w)
    \/ \E probe \in BOOLEAN : InitializeFail(probe)
    \/ Teardown
    \/ \E r \in Reqs : \E q \in QueriesOf(r) : Embed(r, q)
    \/ \E r \in AnyEndpoint, qs \in SeqsUpTo(ReqTexts, MaxTexts) : EmbedBatch(r, qs)
    \/ \E r \in AnyEndpoint, fails \in SUBSET {1} : Health(r, fails)
    \/ \E r \in Reqs : Resume(r)
    \/ \E r \in Reqs : Close(r)
    \/ WorkerStart
    \/ \E r \in Reqs, j \in 1..MaxTexts, raises \in BOOLEAN : WorkerFinish(r, j, raises)

Spec == Init /\ [][Next]_vars

\* ------------------------------------------------- direct calls (library)
\* One call of embed_sync or embed_async on a service constructed with
\* batch_size and max_length = MaxLength.
CallSync(query, batch_size, fails) ==
    /\ call = NoCall
    /\ call' = [fn |-> "embed_sync", query |-> query, batch_size |-> batch_size,
                fails |-> fails, finished |-> << >>,
                batches |-> Batches(query.texts, batch_size),
                result |-> embed_sync(query, batch_size, MaxLength, fails)]
    /\ UNCHANGED <<svcVars, selected, pooled>>

CallAsync(query, batch_size, fails, order) ==
    /\ call = NoCall
    /\ call' = [fn |-> "embed_async", query |-> query, batch_size |-> batch_size,
                fails |-> fails, finished |-> order,
                batches |-> Batches(query.texts, batch_size),
                result |-> embed_async(query, batch_size, MaxLength, fails, order)]
    /\ UNCHANGED <<svcVars, selected, pooled>>

NChunks(query, batch_size) == Len(Batches(query.texts, batch_size))

NextFn ==
    \/ \E q \in Queries(CallTexts, MaxCallTexts), b \in 1..MaxBatch :
           \E fails \in SUBSET (1..NChunks(q, b)) : CallSync(q, b, fails)
    \/ \E q \in Queries(CallTexts, MaxCallTexts), b \in 1..MaxBatch :
           \E fails \in SUBSET (1..NChunks(q, b)), order \in Perms(NChunks(q, b)) :
               CallAsync(q, b, fails, order)

SpecFn == Init /\ [][NextFn]_vars

\* ------------------------------------------------------ single components
\* One device selection and one pooling of a text's hidden states, each on
\* inputs of its own.  Padding is on the right: the mask is 1 on the first
\* positions and 0 on the rest.
HiddenStates == {<<1, 1>>, <<1, 0>>, <<0, 2>>, <<-1, -1>>}
PrefixMask(width, real) == [p \in 1..width |-> IF p <= real THEN 1 ELSE 0]

SelectDevice(hw) ==
    /\ selected = NoSelection
    /\ selected' = [cuda |-> hw.cuda, mps |-> hw.mps,
                    device |-> _get_optimal_device(hw.cuda, hw.mps)]
    /\ UNCHANGED <<svcVars, call, pooled>>

\* embeddings = normalize(self._mean_pooling(last_hidden_state, mask))
Pool(token_embeddings, attention_mask) ==
    /\ pooled = NoPooling
    /\ LET embeddings == _mean_pooling(token_embeddings, attention_mask)
       IN pooled' = [token_embeddings |-> token_embeddings,
                     attention_mask |-> attention_mask,
                     embeddings |-> [k \in DOMAIN embeddings |->
                                        Normalize(embeddings[k])]]
    /\ UNCHANGED <<svcVars, call, selected>>

NextUnit ==
    \/ \E hw \in Hardware : SelectDevice(hw)
    \/ \E width \in 1..MaxWidth :
           \E row \in [1..width -> HiddenStates], real \in 0..width :
               Pool(<<row>>, <<PrefixMask(width, real)>>)

SpecUnit == Init /\ [][NextUnit]_vars

\* ------------------------------------------------- abandoned requests
\* The coroutine awaiting embed_async is cancelled (its caller timed out or
\* went away): CancelledError is raised at `await asyncio.gather(*tasks)`,
\* gather cancels the futures of run_in_executor, and the pool drops the
\* work items that have not started.  A work item that is running cannot
\* be cancelled and runs on.
CancelledError == [NoResponse EXCEPT !.detail = "CancelledError"]

Abandon(r) ==
    /\ req[r].pc = "awaiting"
    /\ req' = [req EXCEPT ![r].pc = "done", ![r].response = CancelledError]
    /\ task' = [task EXCEPT ![r] =
                   [j \in DOMAIN task[r] |->
                       IF task[r][j].st = "queued"
                       THEN [task[r][j] EXCEPT !.st = "cancelled"]
                       ELSE task[r][j]]]
    /\ queue' = SelectSeq(queue, LAMBDA item : item[1] # r)
    /\ Collect(embedding_service, task', req')
    /\ UNCHANGED <<lifecycle, embedding_service, svc, finished, call, selected, pooled>>

\* The running service with callers that may give up.
NextLive ==
    \/ \E b \in 1..MaxBatch, w \in 1..MaxWorkers : Initialize(b, w)
    \/ \E r \in Reqs : \E q \in QueriesOf(r) : Embed(r, q)
    \/ \E r \in Reqs : Abandon(r)
    \/ \E r \in Reqs : Resume(r)
    \/ \E r \in Reqs : Close(r)
    \/ WorkerStart
    \/ \E r \in Reqs, j \in 1..MaxTexts, raises \in BOOLEAN : WorkerFinish(r, j, raises)

\* A free pool thread takes the next work item, a forward pass ends, and
\* the event loop resumes a coroutine whose gather is done.  A pass that
\* returns and a pass that raises are enabled in the same states and each
\* disables the other, so fairness of one of them says that no pass runs
\* for ever and leaves the outcome open.
Fairness ==
    /\ WF_vars(WorkerStart)
    /\ \A r \in Reqs, j \in 1..MaxTexts : WF_vars(WorkerFinish(r, j, TRUE))
    /\ \A r \in Reqs : WF_vars(Resume(r))

SpecLive == Init /\ [][NextLive]_vars /\ Fairness

\* ------------------------------------------------------------ properties
IsEmbed(r) == req[r].endpoint \in {"/embed", "/embed/batch"}

(* C1: a 200 response to a list of n >= 1 texts carries exactly n vectors,
   and the vector at position k is the embedding of text k, whatever the
   order in which the chunk tasks finished on the pool. *)
C1_OrderPreserved ==
    \A r \in Reqs :
        (req[r].pc = "done" /\ IsEmbed(r) /\ req[r].response.status = 200
         /\ req[r].query.kind = "list") =>
            LET texts == req[r].query.texts
                out == req[r].response.embeddings
            IN /\ out.shape = "list"
               /\ Len(out.val) = Len(texts)
               /\ req[r].response.count = Len(texts)
               /\ \A k \in 1..Len(texts) :
                      out.val[k] = _embed_batch(<<texts[k]>>, svc.max_length)[1]

\* Two chunks of different texts, the second finished first, answered 200.
C1_Witness ==
    \E r \in Reqs :
        /\ req[r].pc = "done" /\ IsEmbed(r) /\ req[r].response.status = 200
        /\ req[r].query.kind = "list"
        /\ Len(task[r]) >= 2
        /\ finished[r][1] > finished[r][2]
        /\ req[r].query.texts[1] # req[r].query.texts[2]

(* C2: a call with a bare string returns one vector, equal to element 0 of
   the same call on the one-element list; a call with a list returns a
   list.  For embed_sync and for embed_async. *)
C2_SingleVsList ==
    (call.fn # "" /\ call.result.ok) =>
        LET asList == ListQuery(call.query.texts)
            onList == IF call.fn = "embed_sync"
                      THEN embed_sync(asList, call.batch_size, MaxLength, {})
                      ELSE embed_async(asList, call.batch_size, MaxLength, {},
                                       call.finished)
        IN IF call.query.kind = "str"
           THEN /\ call.result.shape = "vector"
                /\ onList.ok /\ onList.shape = "list" /\ Len(onList.val) = 1
                /\ call.result.val = onList.val[1]
           ELSE call.result.shape = "list"

C2_Witness ==
    /\ call.fn = "embed_async" /\ call.query.kind = "str" /\ call.result.ok
    /\ call.query.texts[1] = LongText

(* C3: when a chunk of a request fails, the request gets one failure
   response without any vector, also not those of the chunks that
   succeeded, and no chunk task is run a second time. *)
C3_WholeRequestFails ==
    \A r \in Reqs :
        /\ \A j \in DOMAIN task[r] : task[r][j].runs <= 1
        /\ (req[r].pc = "awaiting") => req[r].response = NoResponse
        /\ (req[r].pc = "done" /\ IsEmbed(r) /\ Failed(task, r) # {}) =>
               req[r].response = HTTPException(500, "Error generating embeddings")

\* A request of several chunks, one done and one failed, has been answered.
C3_Witness ==
    \E r \in Reqs :
        /\ req[r].pc = "done" /\ Len(task[r]) >= 2
        /\ \E i, j \in DOMAIN task[r] :
               task[r][i].st = "done" /\ task[r][j].st = "failed"

(* C4: _embed_batch runs only on threads of the worker pool, never on the
   event loop's thread, in every operation a request handler reaches: embed,
   the health report, the embedding-dimension query. *)
C4_InferenceOffLoop ==
    \A r \in Reqs :
        /\ req[r].inference # "loop"
        /\ \A j \in DOMAIN task[r] : task[r][j].thread \in {"", "worker"}

(* C5: a request handled before initialization has completed is answered
   with the uninitialized-service failure (503), and no inference task is
   submitted for it. *)
C5_BeforeInitialize ==
    lifecycle = "init" =>
        /\ queue = << >>
        /\ \A r \in Reqs :
               /\ task[r] = << >>
               /\ req[r].pc \in {"idle", "done"}
               /\ req[r].pc = "done" =>
                      req[r].response = HTTPException(503, "Service not initialized")

C5_Witness ==
    /\ lifecycle = "init"
    /\ \E r \in Reqs :
           /\ req[r].pc = "done" /\ req[r].endpoint = "/embed"
           /\ req[r].query.kind = "list" /\ Len(req[r].query.texts) = MaxTexts

(* C6: a request that reaches embed or the health report after shutdown is
   answered with the same uninitialized-service failure (503) as one before
   initialization. *)
C6_AfterShutdown ==
    [][\A r \in Reqs :
          (lifecycle = "stopped" /\ req[r].pc = "idle" /\ req'[r].pc # "idle") =>
              req'[r].response = HTTPException(503, "Service not initialized")]_vars

(* C7: on /embed and on /embed/batch an empty list is rejected by the
   transport layer (400) before the core's embed is called. *)
C7_EmptyListRejected ==
    [][\A r \in Reqs :
          (embedding_service = "bound" /\ req[r].pc = "idle" /\ req'[r].pc # "idle"
           /\ req'[r].query = ListQuery(<< >>)) =>
              req'[r].response = HTTPException(400, "Query list cannot be empty")]_vars

(* C8: embed_async([]) and embed_sync([]) make no chunk and return an empty
   list of vectors instead of raising. *)
C8_EmptyListAllowed ==
    (call.fn # "" /\ call.query = ListQuery(<< >>)) =>
        /\ call.result.ok
        /\ call.result.shape = "list"
        /\ Len(call.result.val) = 0

(* C9: the pool is created once at startup and shut down once at teardown:
   the shutdown is part of teardown, not later, and is over only when no
   chunk task is queued or running. *)
C9_ShutdownAtTeardown ==
    /\ lifecycle = "init" => poolEvents = << >>
    /\ lifecycle = "serving" => poolEvents = <<"create">>
    /\ lifecycle = "stopped" =>
           /\ executor = "shutdown"
           /\ poolEvents = <<"create", "shutdown">>
    /\ executor = "shutdown" => \A r \in Reqs : InFlight(task, r) = {}

(* C10: for a list of N > B texts the result of one call is, position by
   position, the concatenation of the results of embedding each chunk on its
   own, and the vector of a text depends neither on the texts that share its
   chunk nor on the batch size. *)
C10_ChunkingTransparent ==
    (call.fn # "" /\ call.result.ok /\ call.query.kind = "list"
     /\ Len(call.query.texts) > call.batch_size) =>
        LET texts == call.query.texts
            chunks == Batches(texts, call.batch_size)
        IN /\ call.result.val =
                  Concat([j \in DOMAIN chunks |->
                             embed_sync(ListQuery(chunks[j]), call.batch_size,
                                        MaxLength, {}).val])
           /\ \A k \in 1..Len(texts) :
                  call.result.val[k] =
                      embed_sync(StrQuery(texts[k]), call.batch_size, MaxLength, {}).val
           /\ \A b \in 1..MaxBatch :
                  call.result.val = embed_sync(call.query, b, MaxLength, {}).val

\* A call of several chunks in which a short and a long text share a chunk.
C10_Witness ==
    /\ call.fn = "embed_async" /\ call.result.ok /\ call.query.kind = "list"
    /\ call.batch_size >= 2
    /\ Len(call.query.texts) > call.batch_size
    /\ call.query.texts[1] = EmptyText /\ call.query.texts[2] = LongText

(* C11: the result of a call is a function of the call's own texts: it is
   what embedding these texts alone gives, whatever other request runs before,
   after or at the same time. *)
C11_NoLeakage ==
    \A r \in Reqs :
        (req[r].pc = "done" /\ IsEmbed(r) /\ req[r].response.status = 200) =>
            req[r].response.embeddings =
                embed_sync(req[r].query, svc.batch_size, svc.max_length, {})

\* r1 is answered while r2, with a text r1 did not send, is under way.
C11_Witness ==
    /\ req["r1"].pc = "done" /\ req["r1"].response.status = 200
    /\ req["r1"].endpoint = "/embed"
    /\ req["r2"].pc = "awaiting" /\ task["r2"][1].st = "done"
    /\ \A k \in DOMAIN req["r1"].query.texts :
           req["r1"].query.texts[k] # req["r2"].query.texts[1]

(* C12: embed_async resumes its caller only after all chunk tasks of the
   request have completed, also when one chunk task fails while others of
   the request are still queued or running. *)
C12_ResumeAfterAll ==
    \A r \in Reqs :
        (req[r].pc = "done" /\ IsEmbed(r)) => InFlight(task, r) = {}

(* C12, amended: embed_async resumes its caller with a result only after
   all chunk tasks of the request have completed; when a chunk task fails it
   resumes with the failure, while other chunk tasks of the request may
   still be queued or running. *)
C12_ResumeAfterAllOrFailure ==
    \A r \in Reqs :
        (req[r].pc = "done" /\ IsEmbed(r)) =>
            /\ InFlight(task, r) = {} \/ Failed(task, r) # {}
            /\ InFlight(task, r) # {} =>
                   req[r].response = HTTPException(500, "Error generating embeddings")
            /\ req[r].response.status = 200 =>
                   \A j \in DOMAIN task[r] : task[r][j].st = "done"

\* A request answered with its result after both its chunks completed.
C12_Witness ==
    \E r \in Reqs :
        /\ req[r].pc = "done" /\ req[r].response.status = 200
        /\ Len(task[r]) >= 2

(* C13: at any time, over all requests, at most max_workers chunk tasks are
   running inference; the other submitted tasks wait in the pool's queue. *)
C13_BoundedPool ==
    /\ Cardinality(Running(task)) <= svc.max_workers
    /\ \A r \in Reqs : \A j \in DOMAIN task[r] :
           task[r][j].st = "queued" <=>
               \E n \in DOMAIN queue : queue[n] = <<r, j>>

\* Every worker is busy and a task of another request waits.
C13_Witness ==
    /\ svc.max_workers >= 2
    /\ Cardinality(Running(task)) = svc.max_workers
    /\ queue # << >>

(* C14: a chunk task handed to the worker pool is never cancelled: it
   waits, runs or has run to its end, also when the request's caller has
   abandoned the request or another chunk of the request has failed. *)
C14_NoCancellation ==
    \A r \in Reqs : \A j \in DOMAIN task[r] :
        task[r][j].st \in {"queued", "running", "done", "failed"}

(* C15: on the running service a call with texts is accepted whatever the
   number of requests in flight and of tasks queued: all its chunk tasks
   are queued behind those already there; and every accepted call
   eventually returns, with its result or with a failure. *)
C15_NoBackpressure ==
    /\ [][\A r \in Reqs :
             (/\ req[r].pc = "idle" /\ req'[r].pc # "idle"
              /\ lifecycle = "serving"
              /\ req'[r].query.texts # << >>) =>
                 /\ req'[r].pc = "awaiting"
                 /\ Len(task'[r]) = NChunks(req'[r].query, svc.batch_size)
                 /\ queue' = queue \o [j \in DOMAIN task'[r] |-> <<r, j>>]]_vars
    /\ \A r \in Reqs : (req[r].pc = "awaiting") ~> (req[r].pc = "done")

\* Both requests are in flight, the second accepted behind a waiting task
\* of the first.
C15_Witness ==
    /\ \A r \in Reqs : req[r].pc = "awaiting"
    /\ Len(queue) >= 2
    /\ queue[1][1] # queue[Len(queue)][1]

(* C20: between initialization and shutdown no step of an embed operation,
   successful or failed, changes the service: device, model, batch size,
   max token length, the pool and its size stay as they are. *)
C20_ServiceUnchanged ==
    [][(lifecycle = "serving" /\ lifecycle' = "serving") =>
           /\ svc' = svc
           /\ executor' = executor
           /\ embedding_service' = embedding_service]_vars

\* A chunk task has succeeded and one has failed on the running service.
C20_Witness ==
    /\ lifecycle = "serving"
    /\ \E r \in Reqs : \E i, j \in DOMAIN task[r] :
           task[r][i].st = "done" /\ task[r][j].st = "failed"
    /\ svc.model = "eval" /\ executor = "running"

L2Norm(v) == Gcd(Abs(v[1]), Abs(v[2]))
MaskedSum(row, mask) ==
    SumVec([p \in DOMAIN row |-> IF mask[p] = 1 THEN row[p] ELSE <<0, 0>>])

(* C16: every vector that pooling and normalization return has L2 norm 1,
   also for an input whose attention mask marks no real token. *)
C16_UnitNorm ==
    \A k \in DOMAIN pooled.embeddings : L2Norm(pooled.embeddings[k]) = 1

(* C16, amended: the vector has L2 norm 1 when the sum of the hidden states
   of the real tokens is not zero; when it is zero, as for a mask that marks
   no real token, the vector is the zero vector, of norm 0. *)
C16_UnitNormUnlessZero ==
    \A k \in DOMAIN pooled.embeddings :
        IF MaskedSum(pooled.token_embeddings[k], pooled.attention_mask[k]) = <<0, 0>>
        THEN pooled.embeddings[k] = <<0, 0>>
        ELSE L2Norm(pooled.embeddings[k]) = 1

\* A real token and a padding position, pooled to a vector of norm 1.
C16_Witness ==
    /\ pooled # NoPooling
    /\ pooled.attention_mask[1] = <<1, 0>>
    /\ L2Norm(pooled.embeddings[1]) = 1

(* C19: the device is cuda whenever cuda is available, mps exactly when cuda
   is not and mps is, cpu exactly when neither is; every combination gets a
   device. *)
C19_DevicePreference ==
    selected # NoSelection =>
        /\ selected.device \in {"cuda", "mps", "cpu"}
        /\ selected.device = "cuda" <=> selected.cuda
        /\ selected.device = "mps" <=> (~selected.cuda /\ selected.mps)
        /\ selected.device = "cpu" <=> (~selected.cuda /\ ~selected.mps)

C19_Witness ==
    selected.cuda /\ selected.mps /\ selected.device = "cuda"

(* C17: for a list of N >= 1 texts and batch size B >= 1 there are exactly
   ceil(N / B) chunks, each with at least one and at most B texts, all but
   maybe the last with exactly B, and the chunks in order make up the
   input list again. *)
C17_Partition ==
    (call.fn # "" /\ Len(call.query.texts) >= 1) =>
        LET texts == call.query.texts
            B == call.batch_size
            chunks == call.batches
        IN /\ Len(chunks) = (Len(texts) + B - 1) \div B
           /\ \A j \in DOMAIN chunks :
                  /\ Len(chunks[j]) >= 1
                  /\ Len(chunks[j]) <= B
                  /\ j < Len(chunks) => Len(chunks[j]) = B
           /\ Concat(chunks) = texts

\* Three texts in batches of two: a full chunk and a last one of one text.
C17_Witness ==
    /\ call.fn = "embed_sync"
    /\ Len(call.query.texts) = 3 /\ call.batch_size = 2
    /\ Len(call.batches) = 2 /\ Len(call.batches[2]) = 1

(* C18: embed_async gives back what embed_sync gives back for the same
   input, a string or a list, with the same shape, for every order in which
   the chunk tasks finish, and the two fail on the same inputs. *)
C18_SyncAsyncAgree ==
    call.fn # "" =>
        IF call.fn = "embed_async"
        THEN call.result = embed_sync(call.query, call.batch_size, MaxLength,
                                      call.fails)
        ELSE \A order \in Perms(Len(call.batches)) :
                 call.result = embed_async(call.query, call.batch_size, MaxLength,
                                           call.fails, order)

\* An embed_async call of two different chunks, the second finished first.
C18_Witness ==
    /\ call.fn = "embed_async" /\ call.result.ok
    /\ Len(call.batches) >= 2
    /\ call.finished[1] > call.finished[2]
    /\ call.batches[1] # call.batches[2]
====
